---- MODULE Spec2Model ----
(***************************************************************************)
(* Model of src-tauri/src/lib.rs: the three Tauri commands                 *)
(* authenticate_user, authenticated_request and logout_user.               *)
(*                                                                         *)
(* One invocation at a time is followed from the call, through the single  *)
(* `send().await`, to the returned Result.  The backend and the transport  *)
(* are the environment: the Send action picks the transport result, the    *)
(* status code, whether the body can be read, and the body text.           *)
(*                                                                         *)
(* Strings produced with format! are kept as records (template + args) so  *)
(* that two messages are equal exactly when the Rust strings are built the *)
(* same way.  A body text is either a text serde_json rejects or the       *)
(* rendering of a JSON value.                                              *)
(***************************************************************************)
EXTENDS Integers, Sequences, FiniteSets, TLC

VARIABLES cmd, pc, method, sent, resp, result

vars == <<cmd, pc, method, sent, resp, result>>

(***************************************************************************)
(* Bounds                                                                  *)
(***************************************************************************)
\* largest number of keys in a login response object
MaxFields == 2
\* largest number of keys in an object returned to the other two commands
MaxOtherFields == 1

(***************************************************************************)
(* JSON values (serde_json::Value)                                         *)
(***************************************************************************)
Keys == {"access_token", "refresh_token", "username", "email", "message",
         "profile_pic_url", "logo_url", "organization_name", "user_role",
         "organization_type", "tax_identification_number", "staff_role",
         "department", "error"}

NumV == [t |-> "num", s |-> "7"]
NullV == [t |-> "null", s |-> ""]
StrV(s) == [t |-> "str", s |-> s]

ErrorStrings == {"Account not found", "Invalid password", "Invalid credentials"}

CommonVals == {NumV, StrV("abc")}

\* the values the backend may put under a key: a non-string and a string
\* for every key, the empty string for the two tokens, and the strings the
\* error table knows for `error`
ValuesFor(k) ==
    CASE k = "error" -> CommonVals \cup {StrV(e) : e \in ErrorStrings}
      [] k \in {"access_token", "refresh_token"} -> CommonVals \cup {StrV("")}
      [] k = "username" -> {NumV, StrV("alice")}
      [] OTHER -> CommonVals

AllVals == UNION {ValuesFor(k) : k \in Keys}

NoFields == [k \in {} |-> NullV]

ObjectsOver(D) == {f \in [D -> AllVals] : \A k \in D : f[k] \in ValuesFor(k)}

Objects(n) == UNION {ObjectsOver(D) : D \in {E \in SUBSET Keys : Cardinality(E) <= n}}

ObjV(f) == [t |-> "obj", s |-> "", f |-> f]
ScalarTop(v) == [t |-> v.t, s |-> v.s, f |-> NoFields]
ArrV == [t |-> "arr", s |-> "", f |-> NoFields]

TopValues(n) == {ObjV(f) : f \in Objects(n)}
                  \cup {ScalarTop(NullV), ScalarTop(StrV("abc")), ArrV}

(***************************************************************************)
(* Body texts                                                              *)
(***************************************************************************)
JsonText(v) == [wf |-> TRUE, val |-> v, raw |-> "json"]
PlainText(s) == [wf |-> FALSE, val |-> ScalarTop(NullV), raw |-> s]

Texts(n) == {JsonText(v) : v \in TopValues(n)}
              \cup {PlainText("<html>"), PlainText("")}

NoText == PlainText("-")

(***************************************************************************)
(* Option and Result                                                       *)
(***************************************************************************)
None == [some |-> FALSE, v |-> ""]
Some(x) == [some |-> TRUE, v |-> x]
NoneValue == [some |-> FALSE, v |-> NullV]

\* a string built without arguments, or a string taken verbatim
Str(s) == [fmt |-> "{}", s |-> s, status |-> 0, text |-> NoText, method |-> <<>>]
\* format!(fmt, ...) with a cause, a status and/or a text argument
Fmt(f, s, st, tx) == [fmt |-> f, s |-> s, status |-> st, text |-> tx, method |-> <<>>]

NoAuth == [present |-> FALSE]

OkAuth(a) == [ok |-> TRUE, auth |-> a, payload |-> NoText, msg |-> Str("")]
OkText(tx) == [ok |-> TRUE, auth |-> NoAuth, payload |-> tx, msg |-> Str("")]
OkStr(s) == [ok |-> TRUE, auth |-> NoAuth, payload |-> NoText, msg |-> Str(s)]
Err(m) == [ok |-> FALSE, auth |-> NoAuth, payload |-> NoText, msg |-> m]

NoResult == Err(Str("-"))

(***************************************************************************)
(* Helpers of serde_json and std used by the commands                      *)
(***************************************************************************)
\* serde_json::from_str::<Value>(&text)
from_str(text) == IF text.wf THEN [ok |-> TRUE, val |-> text.val]
                             ELSE [ok |-> FALSE, val |-> ScalarTop(NullV)]

\* Value::get(key): Some only on an object holding the key
get(json, key) == IF json.t = "obj" /\ key \in DOMAIN json.f
                  THEN [some |-> TRUE, v |-> json.f[key]]
                  ELSE NoneValue

\* a conversion that also renders non-string values
as_str_lossy(opt) == IF opt.some THEN Some(opt.v.s) ELSE None

\* .and_then(|v| v.as_str())
as_str(opt) == IF opt.some /\ opt.v.t = "str" THEN Some(opt.v.s) ELSE None

get_str(json, key) == as_str(get(json, key))

unwrap_or(opt, d) == IF opt.some THEN opt.v ELSE d

\* an emptiness test that never fires
is_empty_never(s) == FALSE

\* String::is_empty
is_empty(s) == s = ""

\* StatusCode::is_success
is_success(status) == status >= 200 /\ status < 300

\* str::to_uppercase on the ASCII letters
UpperOf == [a |-> "A", b |-> "B", c |-> "C", d |-> "D", e |-> "E", g |-> "G",
            h |-> "H", l |-> "L", o |-> "O", p |-> "P", s |-> "S", t |-> "T",
            u |-> "U"]

to_uppercase(m) == [i \in DOMAIN m |-> IF m[i] \in DOMAIN UpperOf THEN UpperOf[m[i]] ELSE m[i]]

(***************************************************************************)
(* authenticate_user                                                       *)
(***************************************************************************)
MissingTokenMsg == Str("No access token in response")

ReadFailedMsg(cause) == Fmt("Failed to read response: {}", cause, 0, NoText)

InvalidJsonMsg(text) == Fmt("Failed to parse JSON: {}. Response was: {}", "parse error", 0, text)

ConnectionFailedHint(cause) ==
    Fmt("Connection failed: {}. Make sure backend is running on http://127.0.0.1:8000", cause, 0, NoText)

\* the field-by-field extraction and the token check (success status, parsed body)
extract(json_value) ==
    LET access_token == unwrap_or(get_str(json_value, "access_token"), "")
        refresh_token == unwrap_or(get_str(json_value, "refresh_token"), "")
    IN  IF is_empty(access_token)
        THEN Err(MissingTokenMsg)
        ELSE OkAuth([present |-> TRUE,
                     success |-> TRUE,
                     token |-> Some(access_token),
                     refresh_token |-> Some(refresh_token),
                     message |-> unwrap_or(get_str(json_value, "message"), "Login successful"),
                     username |-> get_str(json_value, "username"),
                     email |-> get_str(json_value, "email"),
                     profile_pic_url |-> get_str(json_value, "profile_pic_url"),
                     logo_url |-> get_str(json_value, "logo_url"),
                     organization_name |-> get_str(json_value, "organization_name"),
                     user_role |-> get(json_value, "user_role"),
                     organization_type |-> get_str(json_value, "organization_type"),
                     tax_identification_number |-> get_str(json_value, "tax_identification_number"),
                     staff_role |-> get_str(json_value, "staff_role"),
                     department |-> get_str(json_value, "department")])

\* the success-status branch, with a parse failure read as JSON null
login_success_lenient(r) ==
    IF ~r.readable
    THEN Err(ReadFailedMsg(r.cause))
    ELSE extract(from_str(r.text).val)

\* the success-status branch
login_success(r) ==
    IF ~r.readable
    THEN Err(ReadFailedMsg(r.cause))
    ELSE LET parsed == from_str(r.text)
         IN  IF ~parsed.ok
             THEN Err(InvalidJsonMsg(r.text))
             ELSE extract(parsed.val)

\* the lookup with the first two display texts exchanged
user_friendly_message_swapped(error_msg) ==
    CASE error_msg = "Account not found" -> "Invalid password. Please try again."
      [] error_msg = "Invalid password" -> "Account not found. Please check your email address."
      [] error_msg = "Invalid credentials" -> "Invalid email or password. Please try again."
      [] OTHER -> error_msg

\* match error_msg { ... }
user_friendly_message(error_msg) ==
    CASE error_msg = "Account not found" -> "Account not found. Please check your email address."
      [] error_msg = "Invalid password" -> "Invalid password. Please try again."
      [] error_msg = "Invalid credentials" -> "Invalid email or password. Please try again."
      [] OTHER -> error_msg

\* the status table with the 404 arm missing
generic_message_no404(status) ==
    CASE status = 401 -> "Invalid email or password. Please try again."
      [] status = 403 -> "Access denied. Your account may not have permission to use this application."
      [] status = 500 -> "Server error. Please try again later."
      [] OTHER -> "Login failed. Please try again."

\* match status.as_u16() { ... }
generic_message(status) ==
    CASE status = 401 -> "Invalid email or password. Please try again."
      [] status = 403 -> "Access denied. Your account may not have permission to use this application."
      [] status = 404 -> "Account not found. Please check your email address."
      [] status = 500 -> "Server error. Please try again later."
      [] OTHER -> "Login failed. Please try again."

\* response.text().await.unwrap_or_else(|_| "Unknown error")
error_text(r) == IF r.readable THEN r.text ELSE PlainText("Unknown error")

\* the non-success branch
login_failure(r) ==
    LET parsed == from_str(error_text(r))
        error_msg == get_str(parsed.val, "error")
        msg == get_str(parsed.val, "message")
    IN  IF parsed.ok /\ error_msg.some
        THEN Err(Str(user_friendly_message(error_msg.v)))
        ELSE IF parsed.ok /\ msg.some
             THEN Err(Str(msg.v))
             ELSE Err(Str(generic_message(r.status)))

authenticate_result(r) ==
    IF r.kind = "err"
    THEN Err(ConnectionFailedHint(r.cause))
    ELSE IF is_success(r.status) THEN login_success(r) ELSE login_failure(r)

(***************************************************************************)
(* authenticated_request                                                   *)
(***************************************************************************)
GET == <<"G", "E", "T">>
POST == <<"P", "O", "S", "T">>
PUT == <<"P", "U", "T">>
DELETE == <<"D", "E", "L", "E", "T", "E">>
PATCH == <<"P", "A", "T", "C", "H">>
HEAD == <<"H", "E", "A", "D">>

\* the method strings a caller passes
Methods == {GET, POST, PUT, DELETE, PATCH, HEAD,
            <<"g", "e", "t">>, <<"P", "o", "s", "t">>, <<"h", "e", "a", "d">>, <<>>}

\* a verb match whose default arm builds a GET
has_builder_default_get(m) == TRUE

\* a verb match without the PATCH arm
has_builder_no_patch(m) == to_uppercase(m) \in {GET, POST, PUT, DELETE}

\* match method.to_uppercase().as_str(): TRUE when an arm builds a request
has_builder(m) == to_uppercase(m) \in {GET, POST, PUT, DELETE, PATCH}

UnsupportedMsg(m) == [fmt |-> "Unsupported HTTP method: {}", s |-> "", status |-> 0,
                      text |-> NoText, method |-> m]

\* response.text().await.unwrap_or_else(|_| "Failed to read response")
request_text(r) == IF r.readable THEN r.text ELSE PlainText("Failed to read response")

request_result(r) ==
    IF r.kind = "err"
    THEN Err(Fmt("Connection failed: {}", r.cause, 0, NoText))
    ELSE IF is_success(r.status)
         THEN OkText(request_text(r))
         ELSE Err(Fmt("Request failed ({}): {}", "", r.status, request_text(r)))

(***************************************************************************)
(* logout_user                                                             *)
(***************************************************************************)
\* a logout that reports the server body on failure
logout_result_with_body(r) ==
    IF r.kind = "err"
    THEN Err(Fmt("Request failed: {}", r.cause, 0, NoText))
    ELSE IF is_success(r.status)
         THEN OkStr("Logged out successfully")
         ELSE Err(Fmt("Logout failed: {}", "", 0, request_text(r)))

logout_result(r) ==
    IF r.kind = "err"
    THEN Err(Fmt("Request failed: {}", r.cause, 0, NoText))
    ELSE IF is_success(r.status)
         THEN OkStr("Logged out successfully")
         ELSE Err(Str("Logout failed"))

(***************************************************************************)
(* The environment: transport and backend                                  *)
(***************************************************************************)
Statuses == {200, 201, 400, 401, 403, 404, 500}

Causes == {"connection refused", "timed out"}

NoResp == [kind |-> "none", cause |-> "", status |-> 0, readable |-> FALSE, text |-> NoText]

TransportErr(c) == [kind |-> "err", cause |-> c, status |-> 0, readable |-> FALSE, text |-> NoText]

Unreadable(st, c) == [kind |-> "ok", cause |-> c, status |-> st, readable |-> FALSE, text |-> NoText]

Readable(st, tx) == [kind |-> "ok", cause |-> "", status |-> st, readable |-> TRUE, text |-> tx]

\* the bodies the endpoint of a command may answer with
BodiesOf(c) == IF c = "authenticate" THEN Texts(MaxFields) ELSE Texts(MaxOtherFields)

Responses(c) == {TransportErr(x) : x \in Causes}
                  \cup {Unreadable(st, "body decode error") : st \in Statuses}
                  \cup {Readable(st, tx) : st \in Statuses, tx \in BodiesOf(c)}

\* the request handed to send()
Outbound(c, m) ==
    CASE c = "authenticate" -> [url |-> "http://127.0.0.1:8000/auth/login", verb |-> POST]
      [] c = "logout" -> [url |-> "http://127.0.0.1:8000/auth/logout", verb |-> POST]
      [] OTHER -> [url |-> "caller url", verb |-> to_uppercase(m)]

(***************************************************************************)
(* State machine                                                           *)
(***************************************************************************)
Init ==
    /\ cmd = "none"
    /\ pc = "idle"
    /\ method = <<>>
    /\ sent = <<>>
    /\ resp = NoResp
    /\ result = NoResult

\* authenticate_user up to the request being built
InvokeAuthenticate ==
    /\ pc = "idle"
    /\ cmd' = "authenticate"
    /\ method' = POST
    /\ pc' = "built"
    /\ UNCHANGED <<sent, resp, result>>

\* authenticated_request up to the request being built, or the early return
InvokeRequest ==
    /\ pc = "idle"
    /\ \E m \in Methods :
         /\ cmd' = "request"
         /\ method' = m
         /\ IF has_builder(m)
            THEN /\ pc' = "built"
                 /\ result' = result
            ELSE /\ pc' = "done"
                 /\ result' = Err(UnsupportedMsg(m))
    /\ UNCHANGED <<sent, resp>>

\* logout_user up to the request being built
InvokeLogout ==
    /\ pc = "idle"
    /\ cmd' = "logout"
    /\ method' = POST
    /\ pc' = "built"
    /\ UNCHANGED <<sent, resp, result>>

\* send().await: the one outbound call and what comes back
Send ==
    /\ pc = "built"
    /\ sent' = Append(sent, Outbound(cmd, method))
    /\ \E r \in Responses(cmd) : resp' = r
    /\ pc' = "sent"
    /\ UNCHANGED <<cmd, method, result>>

\* where a command goes once its match on the send result is evaluated
after_match_retry(r) == IF r.kind = "err" THEN "built" ELSE "done"

after_match(r) == "done"

CompleteAuthenticate ==
    /\ pc = "sent"
    /\ cmd = "authenticate"
    /\ result' = authenticate_result(resp)
    /\ pc' = after_match(resp)
    /\ UNCHANGED <<cmd, method, sent, resp>>

CompleteRequest ==
    /\ pc = "sent"
    /\ cmd = "request"
    /\ result' = request_result(resp)
    /\ pc' = after_match(resp)
    /\ UNCHANGED <<cmd, method, sent, resp>>

CompleteLogout ==
    /\ pc = "sent"
    /\ cmd = "logout"
    /\ result' = logout_result(resp)
    /\ pc' = after_match(resp)
    /\ UNCHANGED <<cmd, method, sent, resp>>

\* the result goes to the caller; nothing is kept between invocations
Return ==
    /\ pc = "done"
    /\ cmd' = "none"
    /\ pc' = "idle"
    /\ method' = <<>>
    /\ sent' = <<>>
    /\ resp' = NoResp
    /\ result' = NoResult

Next ==
    \/ InvokeAuthenticate
    \/ InvokeRequest
    \/ InvokeLogout
    \/ Send
    \/ CompleteAuthenticate
    \/ CompleteRequest
    \/ CompleteLogout
    \/ Return

Spec == Init /\ [][Next]_vars

(***************************************************************************)
(* Properties                                                              *)
(***************************************************************************)
SupportedVerbs == {GET, POST, PUT, DELETE, PATCH}

Done(c) == pc = "done" /\ cmd = c

\* the response arrived with this class of status and a body that was read
GotBody(success) ==
    /\ resp.kind = "ok"
    /\ resp.readable
    /\ (resp.status \in 200..299) = success

\* the string under `key` of the parsed body, when there is one
HasString(key) ==
    /\ resp.text.wf
    /\ resp.text.val.t = "obj"
    /\ key \in DOMAIN resp.text.val.f
    /\ resp.text.val.f[key].t = "str"

StringAt(key) == resp.text.val.f[key].s

\* C1: every outcome authenticate returns has success = TRUE exactly when
\* its access token is present and non-empty; an error result carries no
\* outcome at all.
C1_SuccessIffToken ==
    Done("authenticate") =>
        IF result.ok
        THEN /\ result.auth.present
             /\ result.auth.success <=> (result.auth.token.some /\ result.auth.token.v # "")
        ELSE ~result.auth.present

C1_Witness ==
    /\ Done("authenticate")
    /\ result.ok
    /\ result.auth.success
    /\ result.auth.token = Some("abc")

\* C2: on a success status with a JSON body whose access_token is absent,
\* not a string or empty, authenticate returns the missing-token error,
\* whatever else the body holds.
C2_MissingToken ==
    (/\ Done("authenticate")
     /\ GotBody(TRUE)
     /\ resp.text.wf
     /\ ~(HasString("access_token") /\ StringAt("access_token") # ""))
        => result = Err(Str("No access token in response"))

C2_Witness ==
    /\ Done("authenticate")
    /\ GotBody(TRUE)
    /\ resp.text.wf
    /\ resp.text.val.t = "obj"
    /\ DOMAIN resp.text.val.f = {"access_token", "refresh_token"}
    /\ resp.text.val.f["access_token"] = NumV
    /\ resp.text.val.f["refresh_token"] = StrV("abc")
    /\ ~result.ok

\* C3: on a non-success status with a JSON body holding a string `error`,
\* the message comes from that field alone through the fixed table, for
\* every status code and whatever `message` holds.
C3_ErrorFieldTable ==
    (/\ Done("authenticate")
     /\ GotBody(FALSE)
     /\ HasString("error"))
        => result = Err(Str(
             CASE StringAt("error") = "Account not found"
                    -> "Account not found. Please check your email address."
               [] StringAt("error") = "Invalid password"
                    -> "Invalid password. Please try again."
               [] StringAt("error") = "Invalid credentials"
                    -> "Invalid email or password. Please try again."
               [] OTHER -> StringAt("error")))

C3_Witness ==
    /\ Done("authenticate")
    /\ resp.status = 500
    /\ GotBody(FALSE)
    /\ HasString("error")
    /\ StringAt("error") = "Invalid password"
    /\ HasString("message")
    /\ result = Err(Str("Invalid password. Please try again."))

\* C4: on a non-success status with a body that is not JSON, or is JSON
\* without a string `error` and without a string `message`, the message
\* depends on the status code only, through the status table.
C4_StatusTable ==
    (/\ Done("authenticate")
     /\ GotBody(FALSE)
     /\ ~HasString("error")
     /\ ~HasString("message"))
        => result = Err(Str(
             CASE resp.status = 401 -> "Invalid email or password. Please try again."
               [] resp.status = 403
                    -> "Access denied. Your account may not have permission to use this application."
               [] resp.status = 404 -> "Account not found. Please check your email address."
               [] resp.status = 500 -> "Server error. Please try again later."
               [] OTHER -> "Login failed. Please try again."))

C4_Witness ==
    /\ Done("authenticate")
    /\ GotBody(FALSE)
    /\ resp.status = 404
    /\ resp.text.wf
    /\ resp.text.val.t = "obj"
    /\ DOMAIN resp.text.val.f = {"message", "username"}
    /\ resp.text.val.f["message"] = NumV
    /\ result = Err(Str("Account not found. Please check your email address."))

\* the optional string fields of AuthResponse, named as their keys
OptionalStrings == {"refresh_token", "username", "email", "profile_pic_url", "logo_url",
                    "organization_name", "organization_type",
                    "tax_identification_number", "staff_role", "department"}

AuthField(a, k) ==
    CASE k = "refresh_token" -> a.refresh_token
      [] k = "username" -> a.username
      [] k = "email" -> a.email
      [] k = "profile_pic_url" -> a.profile_pic_url
      [] k = "logo_url" -> a.logo_url
      [] k = "organization_name" -> a.organization_name
      [] k = "organization_type" -> a.organization_type
      [] k = "tax_identification_number" -> a.tax_identification_number
      [] k = "staff_role" -> a.staff_role
      [] k = "department" -> a.department

AliceBody == JsonText(ObjV([k \in {"access_token", "username"} |->
                              IF k = "access_token" THEN StrV("abc") ELSE StrV("alice")]))

\* C5: HTTP 200 with body {"access_token":"abc","username":"alice"} gives
\* success with token "abc", username "alice" and every other optional field
\* absent, the refresh token included; in general an optional field is
\* absent whenever its key is absent or not of the expected type.
C5_OptionalFieldsAbsent ==
    (Done("authenticate") /\ GotBody(TRUE) /\ resp.text.wf) =>
        /\ (resp.status = 200 /\ resp.text = AliceBody) =>
              /\ result.ok
              /\ result.auth.token = Some("abc")
              /\ result.auth.username = Some("alice")
        /\ result.ok =>
              /\ \A k \in OptionalStrings :
                    ~HasString(k) => ~AuthField(result.auth, k).some
              /\ ~(resp.text.val.t = "obj" /\ "user_role" \in DOMAIN resp.text.val.f)
                    => ~result.auth.user_role.some

\* C6: a response whose body cannot be read ends the command with a
\* transport error carrying the cause: authenticated_request returns no
\* success payload and authenticate returns no status-table message.
C6_UnreadableBodyIsTransportError ==
    (/\ pc = "done"
     /\ cmd \in {"authenticate", "request"}
     /\ resp.kind = "ok"
     /\ ~resp.readable)
        => /\ ~result.ok
           /\ result.msg.s = resp.cause
           /\ result.msg.fmt # "{}"

\* C7 as stated: a method outside {GET, POST, PUT, DELETE, PATCH} gives the
\* unsupported-method error with no send.
C7_OutsideVerbSetUnsupported ==
    (cmd = "request" /\ method \notin SupportedVerbs)
        => /\ pc = "done"
           /\ sent = <<>>
           /\ result = Err(UnsupportedMsg(method))

\* C7 amended: a method whose upper-cased form is outside {GET, POST, PUT,
\* DELETE, PATCH} gives the unsupported-method error naming the method as
\* passed, with no send in that invocation; and the unsupported-method
\* result is never held together with a send.
C7_UnsupportedNoSend ==
    /\ (cmd = "request" /\ to_uppercase(method) \notin SupportedVerbs)
          => /\ pc = "done"
             /\ sent = <<>>
             /\ result = Err(UnsupportedMsg(method))
    /\ result.msg.fmt = "Unsupported HTTP method: {}" => sent = <<>>

C7_Witness ==
    /\ Done("request")
    /\ method = <<"h", "e", "a", "d">>
    /\ result = Err(UnsupportedMsg(<<"h", "e", "a", "d">>))

WellFormed == cmd \in {"authenticate", "logout"} \/ to_uppercase(method) \in SupportedVerbs

\* C8: an invocation performs at most one outbound call, exactly one when
\* the request is well-formed, and once the call has come back the next step
\* ends the invocation with a result and without another send.
C8_SingleSend ==
    /\ [](/\ Len(sent) <= 1
          /\ pc \in {"sent", "done"} => (Len(sent) = 1 <=> WellFormed))
    /\ [][pc = "sent" => (pc' = "done" /\ sent' = sent /\ result' # NoResult)]_vars

C8_Witness ==
    /\ Done("authenticate")
    /\ resp.kind = "err"
    /\ Len(sent) = 1
    /\ ~result.ok

\* C9: logout has three outcomes chosen by the transport result and the
\* status class alone; any response differing from the received one only in
\* the body (or its readability) yields the same result.
C9_LogoutIgnoresBody ==
    Done("logout") =>
        /\ result = CASE resp.kind = "err"
                           -> Err(Fmt("Request failed: {}", resp.cause, 0, NoText))
                      [] resp.kind = "ok" /\ resp.status \in 200..299
                           -> OkStr("Logged out successfully")
                      [] OTHER -> Err(Str("Logout failed"))
        /\ \A r \in Responses("logout") :
              (r.kind = resp.kind /\ r.status = resp.status /\ resp.kind = "ok")
                 => logout_result(r) = result

C9_Witness ==
    /\ Done("logout")
    /\ resp.kind = "ok"
    /\ resp.status = 401
    /\ resp.readable
    /\ HasString("error")
    /\ result = Err(Str("Logout failed"))

\* C10: on a success status with a body that is not JSON, authenticate
\* returns the invalid-JSON error carrying the raw text: not a success, not
\* the missing-token error, not a message of the failure classifier.
C10_InvalidJson ==
    (/\ Done("authenticate")
     /\ GotBody(TRUE)
     /\ ~resp.text.wf)
        => /\ ~result.ok
           /\ result.msg.fmt = "Failed to parse JSON: {}. Response was: {}"
           /\ result.msg.text = resp.text
           /\ result.msg # Str("No access token in response")

C10_Witness ==
    /\ Done("authenticate")
    /\ resp.status = 200
    /\ resp.readable
    /\ resp.text = PlainText("<html>")
    /\ ~result.ok

====
